---- MODULE Spec2Model ----
(***************************************************************************)
(* Model of `mc alias set`: the bootstrap of one alias.                    *)
(*                                                                         *)
(*   mainAliasSet -> promptTrustSelfSignedCert -> getStsWithLDAP           *)
(*                -> BuildS3Config / probeS3Signature -> setAlias          *)
(*                                                                         *)
(* One behaviour is one run of the command.  The environment (the server,  *)
(* the token service, the terminal, the file system, the clock) answers    *)
(* every call nondeterministically.  fatalIf ends the process: pc = "exit".*)
(* Spec is one run on its own; SpecCancel is one run whose context may be   *)
(* cancelled from outside; SpecConc is two processes in setAlias on the     *)
(* same config file.                                                        *)
(* Scope: both keys are given on the command line (fetchAliasKeys with 4   *)
(* arguments) and alias, URL, keys and --path pass checkAliasSetSyntax.    *)
(* Time is counted in minutes.                                             *)
(***************************************************************************)
EXTENDS Integers, Sequences, FiniteSets, TLC

VARIABLES
    pc,            \* position of the run in mainAliasSet and its callees
    alias,         \* cleanAlias(args.Get(0))
    url,           \* trimTrailingSeparator(args.Get(1)): [scheme, host]
    api,           \* --api flag
    ctype,         \* --type flag, then the resolved credential type
    globalRootCAs, \* process-wide root pool: [present, certs]
    certStore,     \* CAs directory: alias -> file <alias>.crt
    aliasStore,    \* config file: alias -> aliasConfigV10 (or NoRecord)
    clock,         \* wall clock
    tlsErr,        \* promptTrustSelfSignedCert: error of the first connection
    fetched,       \* promptTrustSelfSignedCert: certificate fetched without verification
    answer,        \* promptTrustSelfSignedCert: [read, line, err] of ReadString
    negRet,        \* promptTrustSelfSignedCert: [returned, cert, err]
    peerCert,      \* mainAliasSet: peerCert
    now,           \* mainAliasSet: now
    sts,           \* mainAliasSet: stsAccessKey, stsSecretKey, stsSessionTk, stsExpireTime
    stsClient,     \* prepareStsClient: TLS settings of the exchange's http client
    serverExpiry,  \* token service: time at which the issued token expires
    signature,     \* s3Config.Signature
    probeErr,      \* probeS3Signature: err
    mcCfg,         \* setAlias: the loaded configuration
    createdAt,     \* time at which the aliasConfigV10 literal was built
    stsReturnedAt, \* time at which getStsWithLDAP returned its tokens
    log,           \* every call made to the environment, in order
    exitErr,       \* the error fatalIf ended the process with
    cancelled,     \* globalContext, the parent of ctx (line 361), is cancelled
    peer,          \* another mc process in setAlias on the same config file
    before         \* aliasStore when the command started

vars == <<pc, alias, url, api, ctype, globalRootCAs, certStore, aliasStore, clock,
          tlsErr, fetched, answer, negRet, peerCert, now, sts, stsClient,
          serverExpiry, signature, probeErr, mcCfg, createdAt, stsReturnedAt,
          log, exitErr, cancelled, peer, before>>

----------------------------------------------------------------------------
(* Bounds of the model *)

\* longest content of standard input
MaxLine == 4
\* longest time one call to the network takes
MaxLatency == 30
\* clock when the command starts
StartTime == 1000

(* Program constants, in minutes *)
StsDefaultExpire == 60
StsWindowTime == 10

\* zero value of time.Time (1 January of year 1), in minutes since the Unix epoch
TimeZero == -1035593280

----------------------------------------------------------------------------
(* Values *)

Aliases == {"test", "prod"}

Urls == {[scheme |-> "https", host |-> "mock-endpoint"],
         [scheme |-> "http", host |-> "mock-endpoint"]}

ApiFlags == {"", "s3v4", "S3v2", "s3v5"}

TypeFlags == {"", "auto", "normal", "ldap", "kerberos"}

\* CONSOLE_LDAP_ENABLED: unset, or a string
EnvUnset == <<"-">>
EnvValues == {EnvUnset, <<"o", "n">>, <<"O", "N">>, <<"o", "f", "f">>}

AccessKey == "AK"
SecretKey == "SK"
PathFlag == "auto"

\* characters standard input may hold
Chars == {"y", "Y", "e", "s", "\n"}

StdinInputs == UNION {[1..k -> Chars] : k \in 0..MaxLine}

Latencies == {0, MaxLatency}

\* x509.Certificate: Raw, SubjectKeyId, AuthorityKeyId
NoCert == [raw |-> "", ski |-> <<>>, aki |-> <<>>]

ServerCerts ==
    {[raw |-> "selfsigned", ski |-> <<1>>, aki |-> <<1>>],
     [raw |-> "noids", ski |-> <<>>, aki |-> <<>>],
     [raw |-> "leaf", ski |-> <<1>>, aki |-> <<2>>],
     [raw |-> "noaki", ski |-> <<1>>, aki |-> <<>>]}

OldCert == [raw |-> "old", ski |-> <<3>>, aki |-> <<3>>]

\* a file of the CAs directory
CertFile(c) == [cert |-> c, complete |-> TRUE]
TruncatedFile == [cert |-> NoCert, complete |-> FALSE]

\* Go errors: which call failed, and how
NoCause == [op |-> "", code |-> ""]
UnknownAuthority == [op |-> "Get", code |-> "x509: certificate signed by unknown authority"]
ConnectErrors ==
    {UnknownAuthority,
     [op |-> "Get", code |-> "connection refused"],
     [op |-> "Get", code |-> "x509: certificate has expired"]}
FetchErrors ==
    {[op |-> "Get", code |-> "connection reset"],
     [op |-> "fetchPeerCertificate", code |-> "Unable to read remote TLS certificate"]}
\* what a call made with a cancelled context returns
ContextCanceled == [op |-> "Get", code |-> "context canceled"]
EOF == [op |-> "ReadString", code |-> "EOF"]
WriteError == [op |-> "WriteFile", code |-> "permission denied"]
StsErrors ==
    {[op |-> "sts", code |-> "AccessDenied"],
     [op |-> "sts", code |-> "connection refused"]}
LoadError == [op |-> "loadMcConfig", code |-> "corrupt config"]
SaveError == [op |-> "saveMcConfig", code |-> "disk full"]

\* probe.Error: the cause, the line of probe.NewError, the arguments of Trace
NoError == [cause |-> NoCause, line |-> 0, tags |-> <<>>]
NewError(cause, line) == [cause |-> cause, line |-> line, tags |-> <<>>]
Trace(e, t) == [e EXCEPT !.tags = @ \o t]

\* cli.Args(), as fatalIf(err.Trace(cli.Args()...)) records them
Args == <<alias, url.host, AccessKey, SecretKey>>

\* one call to the environment
Ev(op, arg, res, key, tok) == [op |-> op, arg |-> arg, res |-> res, key |-> key, tok |-> tok]

\* aliasConfigV10
OldRecord ==
    [URL |-> [scheme |-> "http", host |-> "old-endpoint"],
     AccessKey |-> "oldAK", SecretKey |-> "oldSK", API |-> "s3v4", Path |-> "auto",
     AType |-> "normal", StsAccessKey |-> "oldAK", StsSecretKey |-> "oldSK",
     StsSessionTk |-> "", ExpireTime |-> 0]

PutAlone(f, k, v) == [x \in {k} |-> v]

\* the keyed stores: a function whose domain is the set of keys present
Put(f, k, v) == [x \in (DOMAIN f) \cup {k} |-> IF x = k THEN v ELSE f[x]]
EmptyStore == [x \in {} |-> NoCert]

----------------------------------------------------------------------------
(* Pure functions of the program *)

\* unicode.ToLower on the characters of the model
LowerChar(c) ==
    CASE c = "Y" -> "y"
      [] c = "E" -> "e"
      [] c = "S" -> "s"
      [] c = "O" -> "o"
      [] c = "N" -> "n"
      [] OTHER -> c

\* strings.ToLower
ToLower(s) == [i \in 1..Len(s) |-> LowerChar(s[i])]

\* bufio.Reader.ReadString('\n') on standard input holding `in`: the text up to
\* and including the first newline, or all of it and io.EOF when there is none
ReadString(in) ==
    IF \E i \in 1..Len(in) : in[i] = "\n"
    THEN LET n == CHOOSE i \in 1..Len(in) :
                      in[i] = "\n" /\ \A j \in 1..(i - 1) : in[j] # "\n"
         IN  [line |-> SubSeq(in, 1, n), err |-> NoCause]
    ELSE [line |-> in, err |-> EOF]

IsAffirmativeAlways(line) == TRUE

IsAffirmativeCaseSensitive(line) ==
    line = <<"y", "\n">> \/ line = <<"y", "e", "s", "\n">>

\* line 477: answer = strings.ToLower(answer); answer == "y\n" || answer == "yes\n"
IsAffirmative(line) ==
    LET a == ToLower(line)
    IN  a = <<"y", "\n">> \/ a = <<"y", "e", "s", "\n">>

IsSelfSignedNeedsIds(cert) == cert.ski # <<>> /\ cert.ski = cert.aki

IsSelfSignedSameField(cert) == cert.ski = cert.ski

\* line 467: bytes.Equal(peerCert.SubjectKeyId, peerCert.AuthorityKeyId)
IsSelfSigned(cert) == cert.ski = cert.aki

ConnectVerdictNeverPropagates(e) == IF e = NoCause THEN "trusted" ELSE "fetch"

ConnectVerdictAlwaysFetch(e) ==
    IF e # NoCause /\ e # UnknownAuthority THEN "propagate" ELSE "fetch"

\* lines 443-451: what the first connection's error leads to
ConnectVerdict(e) ==
    IF e = NoCause THEN "trusted"
    ELSE IF e # UnknownAuthority THEN "propagate"
    ELSE "fetch"

\* lines 347-356: the credential type from --type and CONSOLE_LDAP_ENABLED
ResolveType(flag, envLDAP) ==
    IF flag \in {"", "auto"}
    THEN IF ToLower(IF envLDAP = EnvUnset THEN <<"o", "f", "f">> ELSE envLDAP) = <<"o", "n">>
         THEN "ldap"
         ELSE "normal"
    ELSE flag

\* isValidAPI, called at line 151
isValidAPI(a) == a \in {"s3v4", "S3v4", "S3V4", "s3v2", "S3v2", "S3V2"}

StsExpireTimeNoWindow(t) == t + StsDefaultExpire
StsExpireTimeAddsWindow(t) == t + StsDefaultExpire + StsWindowTime

\* line 384: now.Add(StsDefaultExpire).Add(-StsWindowTime)
StsExpireTime(t) == t + StsDefaultExpire - StsWindowTime

TimeUnixZeroValue(sec) == TimeZero

\* line 389: time.Unix(sec, 0)
TimeUnix(sec) == sec \div 60

StatOutcomes == {"OK", "NoSuchBucket", "AccessDenied", "SignatureDoesNotMatch", "i/o timeout"}
NewOutcomes == {"OK", "invalid endpoint"}

StatAcceptedOnlySuccess(outcome) == outcome = "OK"

StatAcceptedOnlyNotFound(outcome) == outcome \in {"OK", "NoSuchBucket"}

\* lines 215-231: the outcomes of Stat after which probeSignatureType returns stype, nil
StatAccepted(outcome) == outcome \in {"OK", "NoSuchBucket", "AccessDenied"}

\* lines 208-232: probeSignatureType(stype) when S3New ends as `new` and Stat as `stat`
probeSignatureType(stype, new, stat) ==
    IF new # "OK" THEN [stype |-> "", err |-> NewError([op |-> stype, code |-> new], 210)]
    ELSE IF StatAccepted(stat) THEN [stype |-> stype, err |-> NoError]
    ELSE [stype |-> "", err |-> Trace(NewError([op |-> stype, code |-> stat], 215), <<stype>>)]

FallsBackOnlyOnMismatch(e) == e # NoError /\ e.cause.code = "SignatureDoesNotMatch"

\* lines 234-236: the s3v2 attempt follows every error of the s3v4 attempt
FallsBack(e) == e # NoError

NeedsProbeAlways(a) == TRUE

\* lines 261-266: the signature is probed only when --api is empty
NeedsProbe(a) == a = ""

\* line 540 / 519: CertPool.AddCert on the root pool, when there is one
AddCert(pool, cert) ==
    IF pool.present THEN [pool EXCEPT !.certs = @ \cup {cert.raw}] ELSE pool

----------------------------------------------------------------------------
(* The run *)

args == <<alias, url, api>>
negLocals == <<tlsErr, fetched, answer>>
stsVars == <<now, sts, stsClient, serverExpiry, stsReturnedAt>>
probeVars == <<signature, probeErr>>
saveVars == <<mcCfg, createdAt>>
ambient == <<cancelled, peer, before>>

\* no other process touches the config file
NoPeer == [pc |-> "absent", alias |-> "", mcCfg |-> EmptyStore]

NoSts == [AccessKey |-> "", SecretKey |-> "", SessionTk |-> "", ExpireTime |-> TimeZero]

Init ==
    /\ pc = "main"
    /\ alias \in Aliases
    /\ url \in Urls
    /\ api \in ApiFlags
    /\ ctype \in TypeFlags
    /\ globalRootCAs \in {[present |-> p, certs |-> {}] : p \in BOOLEAN}
    /\ certStore \in {EmptyStore, [a \in Aliases |-> CertFile(OldCert)]}
    /\ aliasStore \in {EmptyStore, [a \in Aliases |-> OldRecord]}
    /\ clock = StartTime
    /\ tlsErr = NoCause
    /\ fetched = NoCert
    /\ answer = [read |-> FALSE, line |-> <<>>, err |-> NoCause]
    /\ negRet = [returned |-> FALSE, cert |-> NoCert, err |-> NoError]
    /\ peerCert = NoCert
    /\ now = TimeZero
    /\ sts = NoSts
    /\ stsClient = [built |-> FALSE, rootCAs |-> FALSE, insecure |-> FALSE]
    /\ serverExpiry = TimeZero
    /\ stsReturnedAt = TimeZero
    /\ signature = ""
    /\ probeErr = NoError
    /\ mcCfg = EmptyStore
    /\ createdAt = TimeZero
    /\ log = <<>>
    /\ exitErr = NoError
    /\ cancelled = FALSE
    /\ peer = NoPeer
    /\ before = aliasStore

FatalGoesOn(err) == pc' = "persist" /\ exitErr' = err

\* fatalIf(err, ...) with err # nil: the process exits
Fatal(err) == pc' = "exit" /\ exitErr' = err

\* lines 319-367: flags, credential type, syntax check; the negotiation runs only
\* when not --insecure, not --json and standard output is a terminal
MainAliasSet ==
    /\ pc = "main"
    /\ \E envLDAP \in EnvValues, interactive \in BOOLEAN :
          /\ ctype' = ResolveType(ctype, envLDAP)
          /\ IF api # "" /\ ~isValidAPI(api)
             THEN Fatal(Trace(NewError([op |-> "checkAliasSetSyntax",
                                        code |-> "invalid argument"], 152), <<api>>))
             ELSE /\ pc' = IF interactive THEN "trust" ELSE "credentials"
                  /\ exitErr' = exitErr
    /\ UNCHANGED <<args, ambient, globalRootCAs, certStore, aliasStore, clock, negLocals, negRet,
                   peerCert, stsVars, probeVars, saveVars, log>>

\* promptTrustSelfSignedCert returns (cert, err) to lines 365-366
NegReturn(cert, err) ==
    /\ negRet' = [returned |-> TRUE, cert |-> cert, err |-> err]
    /\ peerCert' = cert
    /\ IF err # NoError
       THEN Fatal(Trace(err, Args))
       ELSE pc' = "credentials" /\ exitErr' = exitErr

\* lines 424-451: the request, the scheme, the first connection
PromptTrustConnect ==
    /\ pc = "trust"
    /\ IF url.scheme = "http"
       THEN /\ NegReturn(NoCert, NoError)
            /\ UNCHANGED <<tlsErr, log>>
       ELSE \E e \in IF cancelled THEN {ContextCanceled} ELSE ConnectErrors \cup {NoCause} :
               /\ log' = Append(log, Ev("connect", url.host, e.code, "", ""))
               /\ tlsErr' = e
               /\ CASE ConnectVerdict(e) = "trusted" -> NegReturn(NoCert, NoError)
                    [] ConnectVerdict(e) = "propagate" -> NegReturn(NoCert, NewError(e, 450))
                    [] OTHER -> /\ pc' = "fetch"
                                /\ UNCHANGED <<negRet, peerCert, exitErr>>
    /\ UNCHANGED <<args, ambient, ctype, globalRootCAs, certStore, aliasStore, clock, fetched,
                   answer, stsVars, probeVars, saveVars>>

\* lines 457-472: fetch the peer certificate without verification, check that it
\* is its own issuer, print the fingerprint and the question
FetchAndCheck ==
    /\ pc = "fetch"
    /\ \E r \in IF cancelled
                THEN {[err |-> ContextCanceled, cert |-> NoCert]}
                ELSE {[err |-> e, cert |-> NoCert] : e \in FetchErrors}
                     \cup {[err |-> NoCause, cert |-> c] : c \in ServerCerts} :
          IF r.err # NoCause
          THEN /\ log' = Append(log, Ev("fetch", url.host, r.err.code, "", ""))
               /\ fetched' = fetched
               /\ NegReturn(NoCert, NewError(r.err, 459))
          ELSE /\ fetched' = r.cert
               /\ IF ~IsSelfSigned(r.cert)
                  THEN /\ log' = Append(log, Ev("fetch", url.host, r.cert.raw, "", ""))
                       /\ NegReturn(NoCert, NewError(tlsErr, 468))
                  ELSE /\ log' = log \o <<Ev("fetch", url.host, r.cert.raw, "", ""),
                                          Ev("prompt", alias, r.cert.raw, "", "")>>
                       /\ pc' = "confirm"
                       /\ UNCHANGED <<negRet, peerCert, exitErr>>
    /\ UNCHANGED <<args, ambient, ctype, globalRootCAs, certStore, aliasStore, clock, tlsErr,
                   answer, stsVars, probeVars, saveVars>>

\* lines 473-479: read the answer from standard input
ReadAnswer ==
    /\ pc = "confirm"
    /\ \E in \in StdinInputs :
          LET r == ReadString(in)
          IN  /\ answer' = [read |-> TRUE, line |-> r.line, err |-> r.err]
              /\ log' = Append(log, Ev("readline", "stdin", r.err.code, "", ""))
              /\ IF r.err # NoCause
                 THEN NegReturn(NoCert, NewError(r.err, 475))
                 ELSE IF ~IsAffirmative(r.line)
                 THEN NegReturn(NoCert, NewError(tlsErr, 478))
                 ELSE /\ pc' = "store"
                      /\ UNCHANGED <<negRet, peerCert, exitErr>>
    /\ UNCHANGED <<args, ambient, ctype, globalRootCAs, certStore, aliasStore, clock, tlsErr,
                   fetched, stsVars, probeVars, saveVars>>

\* lines 481-485: write <alias>.crt to the CAs directory.  A failed os.WriteFile
\* leaves the file as it was or created and truncated
WriteCert ==
    /\ pc = "store"
    /\ \/ /\ certStore' = Put(certStore, alias, CertFile(fetched))
          /\ log' = Append(log, Ev("writefile", alias, "", "", ""))
          /\ NegReturn(fetched, NoError)
       \/ /\ certStore' \in {certStore, Put(certStore, alias, TruncatedFile)}
          /\ log' = Append(log, Ev("writefile", alias, WriteError.code, "", ""))
          /\ NegReturn(NoCert, NewError(WriteError, 483))
    /\ UNCHANGED <<args, ambient, ctype, globalRootCAs, aliasStore, clock, negLocals,
                   stsVars, probeVars, saveVars>>

\* lines 369-390: the credentials the probe signs with.  Time has passed since
\* the command started (the negotiation, the question to the user)
Credentials ==
    /\ pc = "credentials"
    /\ \E d \in Latencies :
          /\ clock' = clock + d
          /\ IF ctype = "ldap"
             THEN /\ now' = clock'
                  /\ pc' = "exchange"
                  /\ sts' = sts
             ELSE /\ sts' = [AccessKey |-> AccessKey, SecretKey |-> SecretKey,
                             SessionTk |-> "", ExpireTime |-> TimeUnix(0)]
                  /\ pc' = "build"
                  /\ now' = now
    /\ UNCHANGED <<args, ambient, ctype, globalRootCAs, certStore, aliasStore, negLocals, negRet,
                   peerCert, stsClient, serverExpiry, stsReturnedAt, probeVars,
                   saveVars, log, exitErr>>

\* lines 544-579: the http client of the exchange.  With no root pool and a
\* pinned certificate, cas.AddCert at line 553 dereferences a nil pool
PrepareStsClient ==
    /\ pc = "exchange"
    /\ IF ~globalRootCAs.present /\ peerCert # NoCert
       THEN /\ pc' = "panic"
            /\ UNCHANGED <<globalRootCAs, stsClient>>
       ELSE /\ globalRootCAs' = IF peerCert # NoCert
                                THEN AddCert(globalRootCAs, peerCert)
                                ELSE globalRootCAs
            /\ stsClient' = [built |-> TRUE,
                             rootCAs |-> globalRootCAs.present,
                             insecure |-> url.scheme # "http" /\ peerCert # NoCert]
            /\ pc' = "sts"
    /\ UNCHANGED <<args, ambient, ctype, certStore, aliasStore, clock, negLocals, negRet, peerCert,
                   now, sts, serverExpiry, stsReturnedAt, probeVars, saveVars, log,
                   exitErr>>

\* what the token service answers.  getStsWithLDAP is given no context: the
\* what the token service answers: an error, or keys and a session token
StsResponses ==
    {[err |-> e, ak |-> "", sk |-> "", tk |-> ""] : e \in StsErrors}
    \cup {[err |-> NoCause, ak |-> "stsAK", sk |-> "stsSK", tk |-> t] : t \in {"", "token"}}

\* lines 378-384 and 584-597: the exchange.  getStsWithLDAP is given no context:
\* the request is sent and answered whether ctx is cancelled or not.  The request takes d1 to reach the
\* service, which issues a token valid for the RequestedExpiry of line 589, and
\* the answer takes d2 to come back
GetStsWithLDAP ==
    /\ pc = "sts"
    /\ \E resp \in StsResponses, d1 \in Latencies, d2 \in Latencies :
          /\ clock' = clock + d1 + d2
          /\ log' = Append(log, Ev("sts", url.host, resp.err.code, AccessKey, ""))
          /\ IF resp.err # NoCause
             THEN /\ Fatal(Trace(NewError(resp.err, 380), Args))
                  /\ UNCHANGED <<sts, serverExpiry, stsReturnedAt>>
             ELSE /\ sts' = [AccessKey |-> resp.ak, SecretKey |-> resp.sk,
                             SessionTk |-> resp.tk, ExpireTime |-> StsExpireTime(now)]
                  /\ serverExpiry' = clock + d1 + StsDefaultExpire
                  /\ stsReturnedAt' = clock'
                  /\ pc' = "build"
                  /\ exitErr' = exitErr
    /\ UNCHANGED <<args, ambient, ctype, globalRootCAs, certStore, aliasStore, negLocals, negRet,
                   peerCert, now, stsClient, probeVars, saveVars>>

\* lines 246-266: the config; the signature is --api when given
BuildS3Config ==
    /\ pc = "build"
    /\ globalRootCAs' = IF peerCert # NoCert
                        THEN AddCert(globalRootCAs, peerCert)
                        ELSE globalRootCAs
    /\ IF NeedsProbe(api)
       THEN pc' = "probe_v4" /\ signature' = signature
       ELSE pc' = "persist" /\ signature' = api
    /\ UNCHANGED <<args, ambient, ctype, certStore, aliasStore, clock, negLocals, negRet, peerCert,
                   stsVars, probeErr, saveVars, log, exitErr>>

\* probeS3Signature returns (stype, err) to lines 266-273 and 392-393
ProbeReturn(stype, err) ==
    IF err # NoError
    THEN /\ Fatal(Trace(Trace(err, <<url.host, sts.AccessKey, sts.SecretKey, "", PathFlag>>),
                        Args))
         /\ signature' = signature
    ELSE /\ signature' = stype
         /\ pc' = "persist"
         /\ exitErr' = exitErr

ProbeCallsWithGivenKeys(stype, new, stat) ==
    <<Ev("S3New", stype, new, AccessKey, "")>>
    \o IF new = "OK" THEN <<Ev("stat", stype, stat, AccessKey, "")>> ELSE <<>>

\* the calls one probeSignatureType(stype) makes: S3New, then Stat when there is a client
ProbeCalls(stype, new, stat) ==
    <<Ev("S3New", stype, new, sts.AccessKey, sts.SessionTk)>>
    \o IF new = "OK"
       THEN <<Ev("stat", stype, stat, sts.AccessKey, sts.SessionTk)>>
       ELSE <<>>

\* lines 193-235 and 241: the s3v4 attempt
ProbeV4 ==
    /\ pc = "probe_v4"
    /\ \E new \in NewOutcomes, d \in Latencies,
          stat \in IF cancelled THEN {ContextCanceled.code} ELSE StatOutcomes :
          LET r == probeSignatureType("s3v4", new, stat)
          IN  /\ log' = log \o ProbeCalls("s3v4", new, stat)
              /\ clock' = IF new = "OK" THEN clock + d ELSE clock
              /\ probeErr' = r.err
              /\ IF FallsBack(r.err)
                 THEN /\ pc' = "probe_v2"
                      /\ UNCHANGED <<signature, exitErr>>
                 ELSE ProbeReturn(r.stype, r.err)
    /\ UNCHANGED <<args, ambient, ctype, globalRootCAs, certStore, aliasStore, negLocals, negRet,
                   peerCert, stsVars, saveVars>>

\* lines 236-239: the s3v2 attempt
ProbeV2 ==
    /\ pc = "probe_v2"
    /\ \E new \in NewOutcomes, d \in Latencies,
          stat \in IF cancelled THEN {ContextCanceled.code} ELSE StatOutcomes :
          LET r == probeSignatureType("s3v2", new, stat)
          IN  /\ log' = log \o ProbeCalls("s3v2", new, stat)
              /\ clock' = IF new = "OK" THEN clock + d ELSE clock
              /\ probeErr' = r.err
              /\ IF r.err # NoError
                 THEN ProbeReturn("", Trace(r.err, <<"s3v4", "s3v2">>))
                 ELSE ProbeReturn(r.stype, NoError)
    /\ UNCHANGED <<args, ambient, ctype, globalRootCAs, certStore, aliasStore, negLocals, negRet,
                   peerCert, stsVars, saveVars>>

\* lines 395-406: the aliasConfigV10 handed to setAlias
NewRecord ==
    [URL |-> url, AccessKey |-> AccessKey, SecretKey |-> SecretKey, API |-> signature,
     Path |-> PathFlag, AType |-> ctype, StsAccessKey |-> sts.AccessKey,
     StsSecretKey |-> sts.SecretKey, StsSessionTk |-> sts.SessionTk,
     ExpireTime |-> sts.ExpireTime]

\* lines 395 and 171-172: build the record, load the configuration
SetAliasLoad ==
    /\ pc = "persist"
    /\ createdAt' = clock
    /\ \/ /\ mcCfg' = aliasStore
          /\ log' = Append(log, Ev("load", alias, "", "", ""))
          /\ pc' = "save"
          /\ exitErr' = exitErr
       \/ /\ Fatal(Trace(NewError(LoadError, 171), <<"10">>))
          /\ log' = Append(log, Ev("load", alias, LoadError.code, "", ""))
          /\ mcCfg' = mcCfg
    /\ UNCHANGED <<args, ambient, ctype, globalRootCAs, certStore, aliasStore, clock,
                   negLocals, negRet, peerCert, stsVars, probeVars>>

\* lines 175-188 and 408-414: add the alias, save the configuration, print
SetAliasSave ==
    /\ pc = "save"
    /\ mcCfg' = Put(mcCfg, alias, NewRecord)
    /\ \/ /\ aliasStore' = mcCfg'
          /\ log' = Append(log, Ev("save", alias, "", "", ""))
          /\ pc' = "done"
          /\ exitErr' = exitErr
       \/ /\ Fatal(Trace(NewError(SaveError, 177), <<alias>>))
          /\ log' = Append(log, Ev("save", alias, SaveError.code, "", ""))
          /\ aliasStore' = aliasStore
    /\ UNCHANGED <<args, ambient, ctype, globalRootCAs, certStore, clock, negLocals, negRet,
                   peerCert, stsVars, probeVars, createdAt>>

Next ==
    \/ MainAliasSet
    \/ PromptTrustConnect
    \/ FetchAndCheck
    \/ ReadAnswer
    \/ WriteCert
    \/ Credentials
    \/ PrepareStsClient
    \/ GetStsWithLDAP
    \/ BuildS3Config
    \/ ProbeV4
    \/ ProbeV2
    \/ SetAliasLoad
    \/ SetAliasSave

Spec == Init /\ [][Next]_vars

----------------------------------------------------------------------------
(* The run with cancellation: globalContext, the parent of the ctx of line *)
(* 361, is cancelled from outside while the command runs                   *)

Cancel ==
    /\ ~cancelled
    /\ pc \notin {"done", "exit", "panic"}
    /\ cancelled' = TRUE
    /\ log' = Append(log, Ev("cancel", pc, "", "", ""))
    /\ UNCHANGED <<pc, args, ctype, globalRootCAs, certStore, aliasStore, clock, negLocals,
                   negRet, peerCert, stsVars, probeVars, saveVars, exitErr, peer, before>>

NextCancel ==
    \/ Next
    \/ Cancel

SpecCancel == Init /\ [][NextCancel]_vars

----------------------------------------------------------------------------
(* Two processes in setAlias: this run and another mc process, each at line *)
(* 395 with its record built, on the same config file                       *)

\* the aliasConfigV10 the other process hands to setAlias
PeerRecord ==
    [URL |-> [scheme |-> "https", host |-> "peer-endpoint"],
     AccessKey |-> "peerAK", SecretKey |-> "peerSK", API |-> "s3v4", Path |-> "auto",
     AType |-> "normal", StsAccessKey |-> "peerAK", StsSecretKey |-> "peerSK",
     StsSessionTk |-> "", ExpireTime |-> TimeUnix(0)]

\* this run is at line 395 after static credentials and an explicit --api, with
\* no negotiation; the other process is at the same line
InitConc ==
    /\ pc = "persist"
    /\ alias \in Aliases
    /\ url \in Urls
    /\ api \in {a \in ApiFlags : a # "" /\ isValidAPI(a)}
    /\ ctype \in {"normal", "kerberos"}
    /\ globalRootCAs \in {[present |-> p, certs |-> {}] : p \in BOOLEAN}
    /\ certStore = EmptyStore
    /\ aliasStore \in {EmptyStore, [a \in Aliases |-> OldRecord]}
    /\ clock \in {StartTime + d : d \in Latencies}
    /\ tlsErr = NoCause
    /\ fetched = NoCert
    /\ answer = [read |-> FALSE, line |-> <<>>, err |-> NoCause]
    /\ negRet = [returned |-> FALSE, cert |-> NoCert, err |-> NoError]
    /\ peerCert = NoCert
    /\ now = TimeZero
    /\ sts = [AccessKey |-> AccessKey, SecretKey |-> SecretKey,
              SessionTk |-> "", ExpireTime |-> TimeUnix(0)]
    /\ stsClient = [built |-> FALSE, rootCAs |-> FALSE, insecure |-> FALSE]
    /\ serverExpiry = TimeZero
    /\ stsReturnedAt = TimeZero
    /\ signature = api
    /\ probeErr = NoError
    /\ mcCfg = EmptyStore
    /\ createdAt = TimeZero
    /\ log = <<>>
    /\ exitErr = NoError
    /\ cancelled = FALSE
    /\ peer \in {[pc |-> "persist", alias |-> a, mcCfg |-> EmptyStore] : a \in Aliases}
    /\ before = aliasStore

\* lines 171-172 in the other process: it loads the configuration
PeerLoad ==
    /\ peer.pc = "persist"
    /\ \/ /\ peer' = [peer EXCEPT !.mcCfg = aliasStore, !.pc = "save"]
          /\ log' = Append(log, Ev("peer load", peer.alias, "", "", ""))
       \/ /\ peer' = [peer EXCEPT !.pc = "exit"]
          /\ log' = Append(log, Ev("peer load", peer.alias, LoadError.code, "", ""))
    /\ UNCHANGED <<pc, args, ctype, globalRootCAs, certStore, aliasStore, clock,
                   negLocals, negRet, peerCert, stsVars, probeVars, saveVars, exitErr,
                   cancelled, before>>

\* lines 175-178 in the other process: it adds its alias and saves the configuration
PeerSave ==
    /\ peer.pc = "save"
    /\ LET cfg == Put(peer.mcCfg, peer.alias, PeerRecord)
       IN  \/ /\ aliasStore' = cfg
              /\ peer' = [peer EXCEPT !.mcCfg = cfg, !.pc = "done"]
              /\ log' = Append(log, Ev("peer save", peer.alias, "", "", ""))
           \/ /\ aliasStore' = aliasStore
              /\ peer' = [peer EXCEPT !.mcCfg = cfg, !.pc = "exit"]
              /\ log' = Append(log, Ev("peer save", peer.alias, SaveError.code, "", ""))
    /\ UNCHANGED <<pc, args, ctype, globalRootCAs, certStore, clock, negLocals, negRet,
                   peerCert, stsVars, probeVars, saveVars, exitErr, cancelled, before>>

NextConc ==
    \/ SetAliasLoad
    \/ SetAliasSave
    \/ PeerLoad
    \/ PeerSave

SpecConc == InitConc /\ [][NextConc]_vars

----------------------------------------------------------------------------
(* Vocabulary of the properties *)

\* the positions of the calls of the log with one of the operations `ops`
Calls(ops) == {i \in 1..Len(log) : log[i].op \in ops}

\* the certificate store is as it was when the command started
CertStoreUntouched ==
    /\ Calls({"writefile"}) = {}
    /\ certStore \in {EmptyStore, [a \in Aliases |-> CertFile(OldCert)]}

\* promptTrustSelfSignedCert has returned after it fetched a certificate that is
\* its own issuer, the first connection having failed with unknown authority
NegotiatedSelfSigned ==
    /\ negRet.returned
    /\ tlsErr = UnknownAuthority
    /\ fetched # NoCert
    /\ fetched.ski = fetched.aki

\* the words that confirm, and the spellings of a letter
YesWords == {<<"y">>, <<"y", "e", "s">>}
Spellings(c) ==
    CASE c = "y" -> {"y", "Y"}
      [] c = "e" -> {"e", "E"}
      [] c = "s" -> {"s", "S"}
      [] OTHER -> {c}

\* `text` spells `w` in lower or upper case letters
SpellsWord(text, w) ==
    /\ Len(text) = Len(w)
    /\ \A i \in 1..Len(w) : text[i] \in Spellings(w[i])

\* the line is y or yes in any case, its end of line (if it has one) left aside
SaysYes(line) ==
    LET text == IF Len(line) > 0 /\ line[Len(line)] = "\n"
                THEN SubSeq(line, 1, Len(line) - 1)
                ELSE line
    IN  \E w \in YesWords : SpellsWord(text, w)

\* the error of a refused confirmation: the first connection's error, from line 478
IsDeclinedError(e) == e.cause = UnknownAuthority /\ e.line = 478

\* the error of a certificate that is not its own issuer: the same cause, from line 468
IsUntrustedIssuerError(e) == e.cause = UnknownAuthority /\ e.line = 468

----------------------------------------------------------------------------
(* C1 *)

\* C1, as stated: for a self-signed certificate after an unknown-authority
\* failure, Negotiate returns a pinned certificate if and only if the line read
\* is y or yes in any case; every other line gives the decline error and
\* nothing is written to the certificate store.  (Taken for the lines that
\* were read whole, up to their newline.)
C1_AsStated ==
    (NegotiatedSelfSigned /\ answer.err = NoCause) =>
        /\ (negRet.cert # NoCert) <=> SaysYes(answer.line)
        /\ ~SaysYes(answer.line) =>
              IsDeclinedError(negRet.err) /\ CertStoreUntouched

\* C1, amended: a pinned certificate is returned if and only if the line was
\* read whole (it ends with a newline), is y or yes in any case and the write of
\* <alias>.crt succeeded, and then it is the fetched certificate, stored under
\* the alias.  A line read whole that is anything else gives the decline error
\* and nothing is written; input that ends before a newline gives the read
\* error and nothing is written; a failed write gives the write error and no
\* certificate is returned.
C1_PinnedIffConfirmedAndStored ==
    NegotiatedSelfSigned =>
        LET whole == answer.read /\ answer.err = NoCause
            yes == whole /\ SaysYes(answer.line)
            stored == \E i \in Calls({"writefile"}) : log[i].res = ""
        IN  /\ (negRet.cert # NoCert) <=> (yes /\ stored)
            /\ negRet.cert # NoCert =>
                  /\ negRet.cert = fetched
                  /\ negRet.err = NoError
                  /\ alias \in DOMAIN certStore
                  /\ certStore[alias] = CertFile(fetched)
            /\ (whole /\ ~yes) =>
                  IsDeclinedError(negRet.err) /\ CertStoreUntouched
            /\ ~whole =>
                  negRet.err.cause = EOF /\ CertStoreUntouched
            /\ (yes /\ ~stored) =>
                  negRet.err.cause = WriteError

\* C1 witness: the user answered "Yes" and the certificate came back pinned
C1_Witness ==
    /\ NegotiatedSelfSigned
    /\ answer.line = <<"Y", "e", "s", "\n">>
    /\ negRet.cert = fetched
    /\ certStore[alias] = CertFile(fetched)

----------------------------------------------------------------------------
(* C2 *)

\* C2: a certificate is pinned (returned, handed to the rest of the run, or
\* written to the store) only if its subject-key identifier equals its
\* authority-key identifier; and when the fetched certificate's identifiers
\* differ, Negotiate ends with the untrusted-issuer error, the question is not
\* printed, no line is read and nothing is written.
C2_OnlySelfIssuedPinned ==
    /\ negRet.cert.ski = negRet.cert.aki
    /\ peerCert.ski = peerCert.aki
    /\ \A a \in DOMAIN certStore : certStore[a].cert.ski = certStore[a].cert.aki
    /\ (fetched # NoCert /\ fetched.ski # fetched.aki) =>
          /\ negRet.returned
          /\ negRet.cert = NoCert
          /\ IsUntrustedIssuerError(negRet.err)
          /\ pc = "exit"
          /\ Calls({"prompt", "readline"}) = {}
          /\ ~answer.read
          /\ CertStoreUntouched

\* C2 witness: a certificate issued by another key was fetched and refused
C2_Witness ==
    /\ fetched.ski = <<1>>
    /\ fetched.aki = <<2>>
    /\ IsUntrustedIssuerError(negRet.err)

----------------------------------------------------------------------------
(* C3 *)

\* the first connection to the https endpoint succeeded
AlreadyTrusted ==
    /\ url.scheme = "https"
    /\ \E i \in Calls({"connect"}) : log[i].res = ""

\* C3: for an https endpoint the root set already trusts, Negotiate returns no
\* certificate and no error after exactly one network call, prints no question
\* and writes nothing to the certificate store.
C3_TrustedOneCall ==
    AlreadyTrusted =>
        /\ negRet.returned
        /\ negRet.cert = NoCert
        /\ negRet.err = NoError
        /\ Cardinality(Calls({"connect", "fetch"})) = 1
        /\ Calls({"prompt", "readline"}) = {}
        /\ CertStoreUntouched

\* C3 witness: the run went on after a trusted first connection
C3_Witness ==
    /\ AlreadyTrusted
    /\ pc = "credentials"

----------------------------------------------------------------------------
(* C4, C5, C6: the signature probe *)

\* the positions of the calls `op` made under dialect `sig`
ProbeCallsOf(op, sig) == {i \in Calls({op}) : log[i].arg = sig}

\* the attempt under `sig` was the probe's last: nothing was tried after call i
LastAttempt(i) ==
    /\ pc # "probe_v2"
    /\ \A j \in Calls({"S3New", "stat"}) : j <= i

\* the s3v2 attempt follows call i, or is about to
V2Follows(i) ==
    \/ pc = "probe_v2"
    \/ \E j \in ProbeCallsOf("S3New", "s3v2") : j > i

\* the cause of a failed call of the log
CauseOf(i) == [op |-> log[i].arg, code |-> log[i].res]

\* the probe ended with dialect `sig` accepted by the stat at position i
AcceptedAt(i) ==
    /\ signature = log[i].arg
    /\ LastAttempt(i)
    /\ exitErr.cause.op \notin {"s3v4", "s3v2"}

\* C4, as stated: a stat counts as acceptance of its dialect only when it ends
\* in "bucket does not exist" or "access denied"; every other outcome, a stat
\* that succeeds included, is a mismatch.
C4_AsStated ==
    \A i \in Calls({"stat"}) :
        AcceptedAt(i) <=> log[i].res \in {"NoSuchBucket", "AccessDenied"}

\* C4, amended: a stat counts as acceptance of its dialect exactly when it
\* succeeds or ends in "bucket does not exist" or "access denied"; every other
\* outcome is a mismatch (after s3v4 the s3v2 attempt follows, after s3v2 the
\* probe fails with that outcome as its cause).  When the s3v4 stat is accepted
\* the probe returns s3v4 after exactly one round trip and s3v2 is never tried.
C4_AcceptedOutcomes ==
    /\ \A i \in Calls({"stat"}) :
          /\ AcceptedAt(i) <=> log[i].res \in {"OK", "NoSuchBucket", "AccessDenied"}
          /\ ~AcceptedAt(i) =>
                IF log[i].arg = "s3v4"
                THEN V2Follows(i)
                ELSE pc = "exit" /\ exitErr.cause = CauseOf(i) /\ signature = ""
    /\ \A i \in ProbeCallsOf("stat", "s3v4") :
          log[i].res \in {"OK", "NoSuchBucket", "AccessDenied"} =>
              /\ signature = "s3v4"
              /\ Cardinality(Calls({"stat"})) = 1
              /\ ProbeCallsOf("S3New", "s3v2") = {}

\* C4 witness: "access denied" under s3v4, and the alias saved with s3v4
C4_Witness ==
    /\ pc = "done"
    /\ \E i \in ProbeCallsOf("stat", "s3v4") : log[i].res = "AccessDenied"
    /\ aliasStore[alias].API = "s3v4"

\* the attempt under `sig` ended in the error of call i
FailedAt(i, sig) ==
    /\ log[i].arg = sig
    /\ \/ log[i].op = "S3New" /\ log[i].res # "OK"
       \/ log[i].op = "stat" /\ log[i].res \notin {"OK", "NoSuchBucket", "AccessDenied"}

V4FailedAt(i) == FailedAt(i, "s3v4")

\* C5, as stated: s3v2 is attempted only after a signature mismatch under
\* s3v4; a network error or a client-construction error of the s3v4 attempt is
\* propagated as it is and no s3v2 stat follows it.
C5_AsStated ==
    \A i \in Calls({"S3New", "stat"}) :
        (V4FailedAt(i) /\ log[i].res # "SignatureDoesNotMatch") =>
            /\ ProbeCallsOf("stat", "s3v2") = {}
            /\ pc = "exit"
            /\ exitErr.cause = CauseOf(i)

\* C5, amended: s3v2 is attempted exactly when the s3v4 attempt ended in an
\* error, whichever it is: a signature mismatch, a network error, a
\* client-construction error.  The error of the s3v4 attempt is never the one
\* the probe returns: when s3v2 fails too, the probe returns the error of s3v2.
C5_FallsBackOnAnyError ==
    /\ \A i \in Calls({"S3New", "stat"}) : V4FailedAt(i) => V2Follows(i)
    /\ (pc = "probe_v2" \/ ProbeCallsOf("S3New", "s3v2") # {}) =>
          \E i \in Calls({"S3New", "stat"}) : V4FailedAt(i)
    /\ exitErr.cause.op # "s3v4"
    /\ \A j \in Calls({"S3New", "stat"}) :
          FailedAt(j, "s3v2") => pc = "exit" /\ exitErr.cause = CauseOf(j)

\* C5 witness: a timeout under s3v4, then s3v2 accepted and saved
C5_Witness ==
    /\ pc = "done"
    /\ \E i \in ProbeCallsOf("stat", "s3v4") : log[i].res = "i/o timeout"
    /\ aliasStore[alias].API = "s3v2"

\* the error carries the cause: it is its cause, or one of its tags quotes it
Carries(e, c) == e.cause = c \/ \E k \in 1..Len(e.tags) : e.tags[k] = c.code

\* C6: when the s3v4 and the s3v2 attempt both fail, the error the probe fails
\* with carries the cause of the s3v4 failure and the cause of the s3v2 failure.
C6_CarriesBothCauses ==
    \A i \in Calls({"stat"}), j \in Calls({"stat"}) :
        (FailedAt(i, "s3v4") /\ FailedAt(j, "s3v2") /\ log[i].res # log[j].res) =>
            /\ pc = "exit"
            /\ Carries(exitErr, CauseOf(i))
            /\ Carries(exitErr, CauseOf(j))

----------------------------------------------------------------------------
(* C7, C8, C10: the session's expiry *)

\* getStsWithLDAP returned tokens
Exchanged == stsReturnedAt # TimeZero

\* the run saved its record under the alias
Persisted == pc = "done"

\* C7, as stated: the expiry written to the record is issued-at + 50 minutes,
\* issued-at being the time at which the exchange succeeded.
C7_AsStated ==
    Exchanged =>
        /\ sts.ExpireTime = stsReturnedAt + 50
        /\ Persisted => aliasStore[alias].ExpireTime = stsReturnedAt + 50

\* C7, amended: the expiry written to the record is issued-at + 1 hour - 10
\* minutes (issued-at + 50 minutes), issued-at being the time read at line 376,
\* before the exchange request is sent.
C7_ExpiryFromTimeBeforeRequest ==
    Exchanged =>
        /\ now <= stsReturnedAt
        /\ \E i \in Calls({"sts"}) : log[i].res = ""
        /\ sts.ExpireTime = now + 50
        /\ Persisted =>
              /\ aliasStore[alias].AType = "ldap"
              /\ aliasStore[alias].ExpireTime = now + 50

\* C7 witness: an exchange that took time, and its record saved
C7_Witness ==
    /\ Persisted
    /\ Exchanged
    /\ stsReturnedAt > now
    /\ aliasStore[alias].ExpireTime = now + 50

\* C8: whatever the latency of the exchange, the expiry the client stores is
\* strictly earlier than the expiry of the 1-hour token on the service, so
\* while the client's clock is before the stored expiry the token has not
\* expired on the service.
C8_ExpiryBeforeServerExpiry ==
    Exchanged =>
        /\ sts.ExpireTime < serverExpiry
        /\ clock < sts.ExpireTime => clock < serverExpiry
        /\ Persisted => aliasStore[alias].ExpireTime < serverExpiry

\* C8 witness: the request took time to reach the service, and the record was saved
C8_Witness ==
    /\ Persisted
    /\ Exchanged
    /\ serverExpiry > now + StsDefaultExpire
    /\ aliasStore[alias].ExpireTime < serverExpiry

\* C10: every record saved with credential type ldap has a non-empty session
\* token and an expiry strictly later than the time the record was built.
C10_FederatedRecordValid ==
    (Persisted /\ aliasStore[alias].AType = "ldap") =>
        /\ aliasStore[alias].StsSessionTk # ""
        /\ aliasStore[alias].ExpireTime > createdAt

----------------------------------------------------------------------------
(* C9 *)

\* C9: with --api given, no probe is made (no client is built for it, no stat
\* is sent) and the saved record's API is the given value as it was given.
C9_ExplicitApiNoProbe ==
    api # "" =>
        /\ Calls({"S3New", "stat"}) = {}
        /\ pc \notin {"probe_v4", "probe_v2"}
        /\ pc \in {"persist", "save", "done"} => signature = api
        /\ Persisted => aliasStore[alias].API = api

\* C9 witness: a record saved with the API as typed
C9_Witness ==
    /\ Persisted
    /\ api = "S3v2"
    /\ aliasStore[alias].API = "S3v2"

----------------------------------------------------------------------------
(* C11: the record of static credentials *)

\* the run took the else branch of line 385: the keys are used as they were given
StaticRun ==
    /\ pc \in {"build", "probe_v4", "probe_v2", "persist", "save", "done"}
    /\ ctype # "ldap"

\* C11, as stated: every record saved with static credentials has an empty
\* session token and an expiry equal to the zero value of time.Time, and no
\* exchange was made in the run that built it.
C11_AsStated ==
    (Persisted /\ aliasStore[alias].AType = "normal") =>
        /\ aliasStore[alias].StsSessionTk = ""
        /\ aliasStore[alias].ExpireTime = TimeZero
        /\ Calls({"sts"}) = {}

\* C11, amended: every record saved with a credential type other than ldap
\* has an empty session token, the given keys as session keys, and an expiry
\* equal to time.Unix(0, 0), the Unix epoch, which is not the zero value of
\* time.Time; no exchange was made in the run that built it.
C11_StaticRecordExpiresAtEpoch ==
    /\ StaticRun =>
          /\ sts = [AccessKey |-> AccessKey, SecretKey |-> SecretKey,
                    SessionTk |-> "", ExpireTime |-> 0]
          /\ Calls({"sts"}) = {}
          /\ ~stsClient.built
          /\ ~Exchanged
    /\ (Persisted /\ aliasStore[alias].AType # "ldap") =>
          /\ StaticRun
          /\ aliasStore[alias].StsSessionTk = ""
          /\ aliasStore[alias].StsAccessKey = aliasStore[alias].AccessKey
          /\ aliasStore[alias].StsSecretKey = aliasStore[alias].SecretKey
          /\ aliasStore[alias].ExpireTime = 0
          /\ aliasStore[alias].ExpireTime # TimeZero

\* C11 witness: a record of type normal saved over an older one
C11_Witness ==
    /\ Persisted
    /\ before # EmptyStore
    /\ aliasStore[alias].AType = "normal"
    /\ aliasStore[alias].ExpireTime = 0
    /\ Calls({"sts"}) = {}

----------------------------------------------------------------------------
(* C12: a failed run and the alias-record store *)

\* promptTrustSelfSignedCert returned an error
NegotiationFailed == negRet.returned /\ negRet.err # NoError

\* getStsWithLDAP returned an error, or crashed while it built its client
ExchangeFailed ==
    \/ pc = "panic"
    \/ \E i \in Calls({"sts"}) : log[i].res # ""

\* probeS3Signature returned an error: the s3v4 and the s3v2 attempt both failed
ProbeFailed == pc = "exit" /\ probeErr # NoError

\* the run has not written the config file
AliasStoreUntouched ==
    /\ Calls({"save"}) = {}
    /\ aliasStore = before

\* C12: when the negotiation, the exchange or the probe fails, the run ends
\* there and never writes the config file: every alias has the record (or no
\* record) it had before the run.
C12_FailureNeverWrites ==
    (NegotiationFailed \/ ExchangeFailed \/ ProbeFailed) =>
        /\ pc \in {"exit", "panic"}
        /\ AliasStoreUntouched
        /\ mcCfg = EmptyStore
        /\ \A a \in Aliases :
              IF a \in DOMAIN before
              THEN a \in DOMAIN aliasStore /\ aliasStore[a] = OldRecord
              ELSE a \notin DOMAIN aliasStore

\* C12 witness: the probe failed after a successful negotiation and exchange,
\* and the alias keeps its older record
C12_Witness ==
    /\ ProbeFailed
    /\ negRet.returned /\ negRet.cert # NoCert
    /\ Exchanged
    /\ alias \in DOMAIN aliasStore
    /\ aliasStore[alias] = OldRecord

----------------------------------------------------------------------------
(* C13: two processes in setAlias *)

\* C13: two runs for different aliases never contend: however their load, modify
\* and save steps interleave, once both have saved the store holds both new
\* records; two runs for the same alias leave the record of one of them.
C13_BothRecordsStored ==
    (pc = "done" /\ peer.pc = "done") =>
        IF alias # peer.alias
        THEN /\ alias \in DOMAIN aliasStore /\ aliasStore[alias] = NewRecord
             /\ peer.alias \in DOMAIN aliasStore /\ aliasStore[peer.alias] = PeerRecord
        ELSE aliasStore[alias] \in {NewRecord, PeerRecord}

----------------------------------------------------------------------------
(* C14: cancellation *)

\* the calls that go to the network
NetworkOps == {"connect", "fetch", "sts", "stat"}

\* where the run was when it was cancelled: a step that issues network calls
\* was about to send its request or waiting for the answer
CancelledInFlight ==
    \E i \in Calls({"cancel"}) : log[i].arg \in {"trust", "fetch", "sts", "probe_v4", "probe_v2"}

\* C14: when the run is cancelled while the negotiation, the exchange or the
\* probe is in flight, no network call made after the cancellation completes
\* (each is aborted), no record is saved, and the run ends in an outcome of
\* its own, Canceled, which is none of the outcomes a failure ends in.
C14_CancelAbortsRun ==
    CancelledInFlight =>
        /\ \A i \in Calls({"cancel"}), j \in Calls(NetworkOps) :
              j > i => log[j].res = ContextCanceled.code
        /\ \A j \in Calls({"save"}) : log[j].res # ""
        /\ pc \notin {"done", "exit", "panic"}

----------------------------------------------------------------------------
(* C15: the kinds of error of the negotiation *)

\* what the caller has of a probe.Error to tell its kind by: the Go error it
\* wraps (its type and message); the line of probe.NewError is only a call trace
Diagnostic(e) == e.cause

\* the negotiation ended at line 468: the fetched certificate is not its own issuer
RejectedNotSelfIssued ==
    /\ negRet.returned
    /\ fetched # NoCert
    /\ ~IsSelfSigned(fetched)

\* the negotiation ended at line 478: the user answered, and not with yes
UserDeclined ==
    /\ negRet.returned
    /\ answer.read /\ answer.err = NoCause
    /\ ~IsAffirmative(answer.line)

\* the errors line 450 returns: a first connection that failed otherwise
NetworkErrors == {NewError(e, 450) : e \in ConnectErrors \ {UnknownAuthority}}

\* C15: the error of a rejection for a certificate that is not self-issued and
\* the error of a rejection because the user declined are told apart by the
\* caller, and each is told apart from the error of a failed first connection.
C15_ErrorKindsDistinct ==
    /\ UserDeclined =>
          /\ Diagnostic(negRet.err) # Diagnostic(NewError(tlsErr, 468))
          /\ \A n \in NetworkErrors : Diagnostic(negRet.err) # Diagnostic(n)
    /\ RejectedNotSelfIssued =>
          /\ Diagnostic(negRet.err) # Diagnostic(NewError(tlsErr, 478))
          /\ \A n \in NetworkErrors : Diagnostic(negRet.err) # Diagnostic(n)

----------------------------------------------------------------------------
(* C16: end to end *)

\* the run of P7: alias test, an https endpoint whose certificate is self-signed,
\* the keys AK and SK as static credentials, no --api, the answer yes, and
\* "access denied" to the stat signed with s3v4
P7Scenario ==
    /\ alias = "test"
    /\ url = [scheme |-> "https", host |-> "mock-endpoint"]
    /\ api = ""
    /\ ctype = "normal"
    /\ tlsErr = UnknownAuthority
    /\ fetched # NoCert /\ IsSelfSigned(fetched)
    /\ answer.read /\ answer.line = <<"y", "e", "s", "\n">>
    /\ \E i \in ProbeCallsOf("stat", "s3v4") : log[i].res = "AccessDenied"

\* C16, as stated: the run of P7 saves under alias test a record with dialect
\* s3v4, credential type normal and an expiry equal to the zero value of
\* time.Time, and the server's certificate is stored under test.
C16_AsStated ==
    (P7Scenario /\ Persisted) =>
        /\ aliasStore["test"].API = "s3v4"
        /\ aliasStore["test"].AType = "normal"
        /\ aliasStore["test"].ExpireTime = TimeZero
        /\ certStore["test"] = CertFile(fetched)

\* C16, amended: in the run of P7 the probe ends with s3v4 and the server's
\* certificate is stored under test; the run then ends either with an error of
\* the load or the save of the config file, or with the record {dialect s3v4,
\* credential type normal, the given keys, no token, expiry time.Unix(0, 0)}
\* saved under test.
C16_EndToEnd ==
    P7Scenario =>
        /\ pc \in {"persist", "save", "done", "exit"}
        /\ signature = "s3v4"
        /\ Calls({"sts"}) = {}
        /\ ProbeCallsOf("stat", "s3v2") = {}
        /\ "test" \in DOMAIN certStore
        /\ certStore["test"] = CertFile(fetched)
        /\ pc = "exit" => exitErr.cause \in {LoadError, SaveError}
        /\ Persisted =>
              /\ "test" \in DOMAIN aliasStore
              /\ aliasStore["test"] =
                    [URL |-> url, AccessKey |-> "AK", SecretKey |-> "SK", API |-> "s3v4",
                     Path |-> "auto", AType |-> "normal", StsAccessKey |-> "AK",
                     StsSecretKey |-> "SK", StsSessionTk |-> "", ExpireTime |-> 0]
              /\ aliasStore["test"].ExpireTime # TimeZero

\* C16 witness: the run of P7 has saved its record
C16_Witness ==
    /\ P7Scenario
    /\ Persisted
    /\ aliasStore["test"].API = "s3v4"
    /\ certStore["test"].cert = fetched

----------------------------------------------------------------------------
(* C17: the order of the steps *)

\* the step of mainAliasSet a call belongs to
StepOf(op) ==
    CASE op \in {"connect", "fetch", "prompt", "readline", "writefile"} -> 1
      [] op = "sts" -> 2
      [] op \in {"S3New", "stat"} -> 3
      [] op \in {"load", "save"} -> 4

\* C17: the calls of a run are made in the order negotiation, exchange, probe,
\* persist; the exchange is made only with credential type ldap, after the
\* negotiation has returned, with a client whose pool holds the certificate the
\* negotiation pinned; the calls of the probe carry the keys and the token of
\* the exchange with type ldap and the given keys and no token otherwise.
C17_StepsInOrder ==
    /\ \A i \in 1..Len(log), j \in 1..Len(log) :
          i < j => StepOf(log[i].op) <= StepOf(log[j].op)
    /\ (pc \in {"exchange", "sts"} \/ stsClient.built \/ Calls({"sts"}) # {}) =>
          /\ ctype = "ldap"
          /\ negRet.returned \/ Calls({"connect"}) = {}
          /\ peerCert = negRet.cert
    /\ (stsClient.built /\ negRet.cert # NoCert) =>
          /\ stsClient.rootCAs
          /\ negRet.cert.raw \in globalRootCAs.certs
    /\ \A i \in Calls({"S3New", "stat"}) :
          /\ log[i].key = sts.AccessKey /\ log[i].tok = sts.SessionTk
          /\ IF ctype = "ldap"
             THEN /\ Exchanged
                  /\ \E k \in Calls({"sts"}) : k < i /\ log[k].res = ""
                  /\ log[i].key = "stsAK"
             ELSE /\ Calls({"sts"}) = {}
                  /\ log[i].key = AccessKey /\ log[i].tok = ""
    /\ Calls({"load", "save"}) # {} => signature # "" /\ pc \in {"save", "done", "exit"}

\* C17 witness: a run with all four steps, the exchange with a pinned certificate
C17_Witness ==
    /\ Persisted
    /\ negRet.cert # NoCert
    /\ \E k \in Calls({"sts"}), i \in Calls({"stat"}) :
          k < i /\ log[i].key = "stsAK" /\ log[i].tok = "token"
    /\ aliasStore[alias].StsSessionTk = "token"

----------------------------------------------------------------------------
(* C18: the http client of the exchange *)

\* the exchange request, with the user name and the password, was sent
CredentialsSent == Calls({"sts"}) # {}

\* C18: the client built for the exchange verifies the server's certificate
\* (against the root pool and the pinned certificate) whenever the endpoint is
\* https and skips verification only when it is http, so the user name and
\* the password are never sent over TLS to a server whose certificate was not
\* verified.
C18_VerifiesWhenEncrypted ==
    /\ stsClient.built =>
          /\ url.scheme = "https" => ~stsClient.insecure
          /\ stsClient.insecure => url.scheme = "http"
    /\ CredentialsSent => ~(url.scheme = "https" /\ stsClient.insecure)

----------------------------------------------------------------------------
(* C19: a first connection that fails otherwise *)

\* the first connection failed, and not with "certificate signed by unknown authority"
FirstConnectionFailedOtherwise == tlsErr # NoCause /\ tlsErr # UnknownAuthority

\* C19: when the first connection fails for a reason other than unknown
\* authority, the negotiation returns that failure at once: the first
\* connection is the only call of the run (no second connection, no prompt, no
\* write of a certificate, no exchange, no probe, no save) and the run ends
\* with that error.
C19_OtherFailurePropagates ==
    FirstConnectionFailedOtherwise =>
        /\ negRet = [returned |-> TRUE, cert |-> NoCert, err |-> NewError(tlsErr, 450)]
        /\ pc = "exit"
        /\ exitErr = Trace(NewError(tlsErr, 450), Args)
        /\ Len(log) = 1
        /\ log[1] = Ev("connect", url.host, tlsErr.code, "", "")
        /\ fetched = NoCert /\ ~answer.read /\ peerCert = NoCert
        /\ CertStoreUntouched
        /\ AliasStoreUntouched
        /\ ~stsClient.built /\ ~Exchanged /\ signature = ""

\* C19 witness: the connection was refused, and the run has ended
C19_Witness ==
    /\ tlsErr = [op |-> "Get", code |-> "connection refused"]
    /\ pc = "exit"
    /\ negRet.returned
    /\ exitErr.cause = tlsErr

----------------------------------------------------------------------------
(* C20: what a run leaves in the alias-record store *)

\* the calls of this run and of the other process on the config file
SelfCalls == Calls({"load", "save"})
PeerCalls == Calls({"peer load", "peer save"})

\* the two runs made their calls one after the other: a sequence of bootstraps
Sequential ==
    \/ \A i \in SelfCalls, j \in PeerCalls : i < j
    \/ \A i \in SelfCalls, j \in PeerCalls : j < i

\* the successful saves of a record under alias a, and the record of a save
SavesOf(a) ==
    {i \in Calls({"save", "peer save"}) : log[i].arg = a /\ log[i].res = ""}
SavedRecord(i) == IF log[i].op = "save" THEN NewRecord ELSE PeerRecord

\* C20: a successful run for an alias replaces the record under that alias
\* with the record it built and leaves every other alias as it was; after a
\* sequence of runs every alias holds the record of the last successful run
\* for it, or what it held before the runs when there was none.
C20_LastSuccessfulRunWins ==
    Sequential =>
        \A a \in Aliases :
            IF SavesOf(a) = {}
            THEN IF a \in DOMAIN before
                 THEN a \in DOMAIN aliasStore /\ aliasStore[a] = before[a]
                 ELSE a \notin DOMAIN aliasStore
            ELSE /\ a \in DOMAIN aliasStore
                 /\ \E i \in SavesOf(a) :
                       /\ \A j \in SavesOf(a) : j <= i
                       /\ aliasStore[a] = SavedRecord(i)

\* C20 witness: this run saved its record under an alias, then the other
\* process saved its own under the same alias; the other alias keeps its
\* older record
C20_Witness ==
    /\ pc = "done" /\ peer.pc = "done"
    /\ Sequential
    /\ alias = peer.alias
    /\ \E i \in Calls({"save"}), j \in Calls({"peer load"}) : i < j
    /\ aliasStore[alias] = PeerRecord
    /\ \E a \in Aliases \ {alias} : a \in DOMAIN aliasStore /\ aliasStore[a] = OldRecord

----------------------------------------------------------------------------
(* C21: the credential type of the record *)

\* CONSOLE_LDAP_ENABLED is set to on, in lower or upper case letters
EnvIsOn(e) == e \in {<<a, b>> : a \in {"o", "O"}, b \in {"n", "N"}}

\* C21: the credential type of every saved record is normal or ldap, whatever
\* was passed as --type; an empty or auto --type resolves to ldap exactly when
\* CONSOLE_LDAP_ENABLED is on in any case, and to normal otherwise.
C21_RecordTypeIsEnum ==
    /\ \A f \in {"", "auto"}, e \in EnvValues :
          ResolveType(f, e) = IF EnvIsOn(e) THEN "ldap" ELSE "normal"
    /\ pc \notin {"main"} => ctype \in {"normal", "ldap"}
    /\ Persisted => aliasStore[alias].AType \in {"normal", "ldap"}

----------------------------------------------------------------------------
(* C22: the write of the certificate store *)

\* the certificate was written whole under the alias
CertWritten == \E i \in Calls({"writefile"}) : log[i].res = ""

\* C22: a run writes the certificate store at most once, under its alias, after
\* an answer that says yes and before every call of the exchange and of the
\* probe; a run that makes no write leaves the store as it was; once written,
\* the certificate stays under the alias whatever fails later.
C22_CertWrittenOnceBeforeUse ==
    /\ Cardinality(Calls({"writefile"})) <= 1
    /\ \A i \in Calls({"writefile"}) :
          /\ log[i].arg = alias
          /\ answer.read /\ answer.err = NoCause /\ SaysYes(answer.line)
          /\ \E k \in Calls({"readline"}) : k < i /\ log[k].res = ""
          /\ \A j \in Calls({"sts", "S3New", "stat", "load", "save"}) : i < j
    /\ Calls({"writefile"}) = {} => CertStoreUntouched
    /\ CertWritten =>
          /\ alias \in DOMAIN certStore
          /\ certStore[alias] = CertFile(fetched)
          /\ \A a \in DOMAIN certStore \ {alias} : certStore[a] = CertFile(OldCert)

\* C22 witness: the run ended in a failed probe, with the certificate stored
\* under the alias and the alias-record store as it was
C22_Witness ==
    /\ ProbeFailed
    /\ CertWritten
    /\ certStore[alias] = CertFile(fetched)
    /\ AliasStoreUntouched

----------------------------------------------------------------------------
(* C23: a certificate with no key identifiers *)

\* the certificate has neither a SubjectKeyId nor an AuthorityKeyId
NoKeyIds(cert) == cert # NoCert /\ cert.ski = <<>> /\ cert.aki = <<>>

\* C23: a fetched certificate with no subject-key and no authority-key
\* identifier passes the check of line 467: the fingerprint question is asked,
\* the negotiation does not end at line 468, and on an answer that says yes
\* the certificate is written and returned as the pinned certificate.
C23_NoIdsPassesCheck ==
    NoKeyIds(fetched) =>
        /\ IsSelfSigned(fetched)
        /\ \E i \in Calls({"prompt"}) : log[i].res = fetched.raw
        /\ ~(negRet.returned /\ negRet.err.line = 468)
        /\ (answer.read /\ answer.err = NoCause /\ SaysYes(answer.line)) =>
              \/ pc = "store"
              \/ CertWritten
              \/ negRet.err = NewError(WriteError, 483)
        /\ CertWritten =>
              /\ negRet = [returned |-> TRUE, cert |-> fetched, err |-> NoError]
              /\ peerCert = fetched
              /\ certStore[alias] = CertFile(fetched)

\* C23 witness: the certificate with no identifiers was pinned and the record saved
C23_Witness ==
    /\ NoKeyIds(fetched)
    /\ CertWritten
    /\ peerCert = fetched
    /\ Persisted

----------------------------------------------------------------------------
(* C24: building the client of the exchange *)

\* getStsWithLDAP returned: tokens, or the error line 380 wraps
ExchangeReturned ==
    \/ Exchanged
    \/ pc = "exit" /\ exitErr.line = 380 /\ exitErr.cause \in StsErrors

\* C24: with the root pool present or absent and a pinned certificate present
\* or absent, prepareStsClient builds its client without a crash, and the
\* exchange ends with tokens or with an error: a run that entered the exchange
\* is building the client, waiting for the answer, or has one of the two.
C24_ClientBuiltWithoutCrash ==
    /\ pc # "panic"
    /\ pc = "sts" => stsClient.built
    /\ (ctype = "ldap" /\ pc \in {"build", "probe_v4", "probe_v2", "persist", "save", "done"})
          => stsClient.built /\ ExchangeReturned

====
